---- MODULE Spec2Model ----
(***************************************************************************)
(* Model of the movie-conversion queue worker: the SQLite job queue and    *)
(* heuristic store (db_utils.py), the dispatcher loop (core.py) and the    *)
(* tiered encoding controller (conversion_utils.py).                       *)
(*                                                                         *)
(* Each dispatcher is a separate OS process with its own DatabaseManager   *)
(* and its own sqlite3 connection to the shared database file.  A          *)
(* connection opened with isolation_level='IMMEDIATE' issues BEGIN         *)
(* IMMEDIATE only in front of INSERT/UPDATE/DELETE/REPLACE; a SELECT runs  *)
(* outside any transaction.  The threading.Lock of a DatabaseManager is    *)
(* private to its process.  A write transaction is one atomic step, but    *)
(* for the UPDATE of dequeue_pending_job, whose BEGIN IMMEDIATE and        *)
(* UPDATE-and-commit are two steps: between them the process holds the     *)
(* database's write lock.                                                  *)
(***************************************************************************)
EXTENDS Naturals, Sequences, FiniteSets

\* ------------------------------------------------------------------ bounds
\* Lines the external producer may append to the backlog file.
MaxBacklog == 2
\* Terminations of dispatcher processes: forced ones (kill -9, power loss)
\* and SIGINT/SIGTERM deliveries together.
MaxCrashes == 1
\* Distinct CURRENT_TIMESTAMP seconds observed by inserts (0..MaxClock).
MaxClock == 1
\* save_successful_profile calls on one signature in the heuristic store run.
MaxSaves == 3

\* ------------------------------------------------------------- the inputs
Workers == {"w1", "w2"}

\* The filesystem paths a backlog line may name.
Paths == {"seed", "out", "tvdir", "ep", "mvdir", "bad", "gone", "conv", "outdir", "emptydir"}

\* The media files a job can come to encode: an episode, the file "mv"
\* inside the movie folder "mvdir", and "conv", an episode file whose name
\* ends in _converted.mp4.
Files == {"ep", "mv", "conv"}

\* Which of the prefixes tested by should_process_path / core.py a path has.
\* "seed" lies under /share/seeding with the movies root configured above it;
\* "out" lies under none of them; "gone" names a file under the movies root
\* that is no longer on disk when its job is dequeued; "outdir" is a
\* directory under none of the roots, "emptydir" a directory under the movies
\* root that holds no movie file.
Prefixes(p) ==
  CASE p = "seed"  -> {"seeding", "movies"}
    [] p = "out"   -> {}
    [] p = "tvdir" -> {"tv"}
    [] p = "ep"    -> {"tv"}
    [] p = "mvdir" -> {"movies"}
    [] p = "mv"    -> {"movies"}
    [] p = "bad"   -> {"movies"}
    [] p = "gone"  -> {"movies"}
    [] p = "conv"  -> {"tv"}
    [] p = "outdir" -> {}
    [] p = "emptydir" -> {"movies"}

is_dir(p) == p \in {"tvdir", "mvdir", "outdir", "emptydir"}

is_file(p) == p \in {"ep", "mv", "conv", "bad", "seed", "out"}

\* The name of a media file, in pieces: the part of the stem up to and
\* including its SxxExx tag (the whole stem when it has none), the rest of
\* the stem, the extension.
NameOf(p) ==
  CASE p = "ep"   -> << "Show.S01E01", ".720p.WEB", ".mkv" >>
    [] p = "conv" -> << "Show.S01E02", "_converted", ".mp4" >>
    [] p = "mv"   -> << "Movie.2020.1080p", "", ".mkv" >>

\* sanitize_tvseries_name: the stem cut after the SxxExx tag.
sanitize_tvseries_name(n) == << n[1] >>

\* Movie.clean_name: sanitize_movie_name is called without its config
\* argument, the TypeError is caught and the stem is returned.
MovieCleanName(n) == << n[1], n[2] >>

clean_name(p) ==
  IF "movies" \in Prefixes(p) THEN MovieCleanName(NameOf(p))
  ELSE sanitize_tvseries_name(NameOf(p))

\* temp_output: source_path.with_name(clean_name + "_converted.mp4"), as the
\* pieces of its name; it lies in the directory of the source.
TempName(p) == clean_name(p) \o << "_converted", ".mp4" >>

\* temp_output is the source file itself.
TempIsSource(p) == TempName(p) = NameOf(p)

\* The largest movie file of a movie directory ("none": no movie file).
\* The lookup handing back the directory itself when it finds no video file.
get_largest_movie_file_Self(p) ==
  IF p = "mvdir" THEN "mv" ELSE p

get_largest_movie_file(p) ==
  IF p = "mvdir" THEN "mv" ELSE IF is_file(p) THEN p ELSE "none"

\* Video files found by rglob under a season directory.
Episodes(p) == IF p = "tvdir" THEN <<"ep">> ELSE <<>>

\* Whether ffprobe finds a decodable video stream with width and height.
ProbeOk(p) == p \in Files

Signatures == {"sig"}

\* The (width, height, codec, pix_fmt) of a probed file.
SignatureOf(p) == "sig"

\* get_best_profile found no row (None).
NoProfile == [none |-> TRUE]

\* Rows the encoding_profiles table may hold when the dispatcher starts.
\* Each with its success_count: a profile every tier passes, one two tiers
\* pass, one only the safe tier passes, one no tier passes.
InitialProfiles ==
  { NoProfile,
    [bf |-> 7, lad |-> 40, async_depth |-> 8, success_count |-> 1],
    [bf |-> 4, lad |-> 20, async_depth |-> 4, success_count |-> 1],
    [bf |-> 2, lad |-> 10, async_depth |-> 2, success_count |-> 1],
    [bf |-> 3, lad |-> 5, async_depth |-> 2, success_count |-> 1] }

Terminal == {"COMPLETED", "FAILED", "REJECTED"}

VARIABLES
  jobs,       \* the jobs table: row i has id i; [path, status, created_at]
  backlog,    \* the lines of the backlog text file
  profiles,   \* the encoding_profiles table, by signature
  pc,         \* where each dispatcher process is
  row,        \* the job id a dispatcher selected / holds (0: none)
  cursor,     \* the backlog line a dispatcher's ingestion is at
  tiers,      \* the ladder of the running encode
  attempt,    \* index of the next tier to try
  tried,      \* the tiers attempted for the current job, in order
  best,       \* the profile loaded for the current job
  jobPath,    \* job_path of the job being handled ("none": no job)
  info,       \* whether the job's MediaItem got its stream_info
  err,        \* the exception that ended the controller ("none": none raised)
  disk,       \* temp_output of each media file: absent, partial or valid
  source,     \* the source of each media file: present or deleted
  scope,      \* the paths the external producer writes to the backlog
  crashes,    \* forced terminations so far
  returns,    \* per job: dequeue returns since it last became PENDING
  resets,     \* per job: times the recovery pass reset it to PENDING
  enqueued,   \* the paths add_job has been called with
  lastAdd,    \* the last add_job call: its path and what it returned
  lastSave    \* the last save_successful_profile call: its signature and tier

ctl == << tiers, attempt, tried, best, jobPath, info, err >>

hist == << returns, resets, enqueued, lastAdd, lastSave >>

vars == << jobs, backlog, profiles, pc, row, cursor, ctl, disk, source, scope, crashes, hist >>

RowsOf(js, p) == { i \in DOMAIN js : js[i].path = p }

\* ------------------------------------------------------- Job Queue Store
\* CURRENT_TIMESTAMP at an insert: the second of the previous insert or a
\* later one (one-second resolution, wall clock assumed not to step back).
NextStamps(js) ==
  LET last == IF js = <<>> THEN 0 ELSE js[Len(js)].created_at
  IN  { t \in 0..MaxClock : t = last \/ t = last + 1 }

\* The jobs table declared without UNIQUE on path: no insert is refused.
IntegrityError_NoUnique(js, p) == FALSE

\* INSERT violates UNIQUE(path): sqlite3.IntegrityError.
IntegrityError(js, p) == RowsOf(js, p) # {}

\* INSERT OR REPLACE in place of INSERT: an existing row is overwritten by a
\* fresh PENDING one and the call reports success.
add_job_replace(js, p, ts) ==
  IF RowsOf(js, p) # {}
    THEN [jobs |-> [ i \in DOMAIN js |->
                       IF js[i].path = p
                         THEN [js[i] EXCEPT !.status = "PENDING", !.created_at = ts]
                         ELSE js[i] ],
          ret  |-> TRUE]
    ELSE [jobs |-> Append(js, [path |-> p, status |-> "PENDING", created_at |-> ts]),
          ret  |-> TRUE]

\* INSERT INTO jobs (path, status) VALUES (?, 'PENDING'); False on
\* IntegrityError.
add_job(js, p, ts) ==
  IF IntegrityError(js, p)
    THEN [jobs |-> js, ret |-> FALSE]
    ELSE [jobs |-> Append(js, [path |-> p, status |-> "PENDING", created_at |-> ts]),
          ret  |-> TRUE]

\* SELECT id, path FROM jobs WHERE status = 'PENDING' ORDER BY created_at ASC
\* LIMIT 1: some PENDING row of least created_at; SQL leaves the order of
\* rows with equal sort keys undefined.
SelectOldestPending(js) ==
  { i \in DOMAIN js :
      /\ js[i].status = "PENDING"
      /\ \A k \in DOMAIN js :
           js[k].status = "PENDING" => js[i].created_at <= js[k].created_at }

\* UPDATE jobs SET status = ? WHERE id = ?
update_job_status(js, id, st) ==
  [ i \in DOMAIN js |-> IF i = id THEN [js[i] EXCEPT !.status = st] ELSE js[i] ]

\* Startup recovery pass: every PROCESSING row back to PENDING.
reset_orphaned_jobs(js) ==
  [ i \in DOMAIN js |->
      IF js[i].status = "PROCESSING" THEN [js[i] EXCEPT !.status = "PENDING"] ELSE js[i] ]

\* ------------------------------------------------------- Heuristic Store
get_best_profile(sig) == profiles[sig]

\* INSERT OR REPLACE in place of the upsert: the row is written anew and
\* success_count falls back to the column's default.
save_successful_profile_Replace(ps, sig, t) ==
  [ps EXCEPT ![sig] =
     [bf |-> t.bf, lad |-> t.lad, async_depth |-> t.async_depth, success_count |-> 1]]

\* INSERT ... ON CONFLICT DO UPDATE: success_count is 1 on the insert (the
\* column's default) and success_count + 1 on the update.
save_successful_profile(ps, sig, t) ==
  [ps EXCEPT ![sig] =
     [bf |-> t.bf, lad |-> t.lad, async_depth |-> t.async_depth,
      success_count |-> IF ps[sig] = NoProfile THEN 1 ELSE ps[sig].success_count + 1]]

\* ----------------------------------------------------------- file_utils
\* The filter without its seeding test.
should_process_path_NoDeny(p) ==
  IF "tv" \in Prefixes(p) THEN TRUE
  ELSE IF "movies" \in Prefixes(p) THEN TRUE
  ELSE FALSE

\* The filter testing the allowed roots before the seeding subtree.
should_process_path_AllowFirst(p) ==
  IF "tv" \in Prefixes(p) THEN TRUE
  ELSE IF "movies" \in Prefixes(p) THEN TRUE
  ELSE IF "seeding" \in Prefixes(p) THEN FALSE
  ELSE FALSE

should_process_path(p) ==
  IF "seeding" \in Prefixes(p) THEN FALSE
  ELSE IF "tv" \in Prefixes(p) THEN TRUE
  ELSE IF "movies" \in Prefixes(p) THEN TRUE
  ELSE FALSE

MediaTypeOf(p) ==
  IF "movies" \in Prefixes(p) THEN "MOVIE"
  ELSE IF "tv" \in Prefixes(p) THEN "TVSERIES"
  ELSE "UNKNOWN"

\* -------------------------------------------------------------- encoding
\* models.py: EncodingTier is a frozen dataclass and defines no __getitem__,
\* so t['bf'] and attempt['desc'] raise TypeError.
EncodingTierSubscriptable == FALSE

\* The ladder listed safe tier first.
DefaultTiers_Ascending ==
  << [bf |-> 0, lad |-> 10, async_depth |-> 2],
     [bf |-> 4, lad |-> 20, async_depth |-> 4],
     [bf |-> 7, lad |-> 40, async_depth |-> 8] >>

DefaultTiers ==
  << [bf |-> 7, lad |-> 40, async_depth |-> 8],
     [bf |-> 4, lad |-> 20, async_depth |-> 4],
     [bf |-> 0, lad |-> 10, async_depth |-> 2] >>

\* The test of the filter loop: t['bf'] <= best_bf and t['lad'] <= best_lad.
TierAllowed(t, prof) == t.bf <= prof.bf /\ t.lad <= prof.lad

\* valid_tiers, and the ladder after filtering or injection.
FilteredLadder(prof) ==
  LET Keep(t) == TierAllowed(t, prof)
      valid   == SelectSeq(DefaultTiers, Keep)
      heuristic == [bf |-> prof.bf, lad |-> prof.lad, async_depth |-> prof.async_depth]
  IN  IF valid # <<>> THEN valid ELSE <<heuristic>> \o DefaultTiers

\* MediaItem.stream_info: set only when the source is a file that probes.
HasStreamInfo(p) == is_file(p) /\ ProbeOk(p)

\* source_path.is_file() when the MediaItem is built: a media file the
\* pipeline has deleted is no longer one.
OnDisk(p) == is_file(p) /\ (p \in Files => source[p] = "present")

\* What one tier's ffmpeg run can end as: a non-zero exit tied to hardware
\* resource limits, any other non-zero exit (or a Popen error), exit 0 with a
\* missing or undersized output, exit 0 with a valid output.
Outcomes == {"nonzero_resource", "nonzero_other", "zero_invalid", "zero_valid"}

\* execute_process: None for every non-zero exit and every Popen error, the
\* process object otherwise.
execute_process(o) == IF o \in {"nonzero_resource", "nonzero_other"} THEN "None" ELSE "proc"

\* What a run ending as o can leave at temp_output, given what was there:
\* ffmpeg writes or truncates the file, it never removes one.
Written(o, before) ==
  IF o = "zero_valid" THEN {"valid"}
  ELSE IF o = "zero_invalid"
    THEN {"partial"} \cup (IF before = "absent" THEN {"absent"} ELSE {})
  ELSE {"partial", before}

\* The runs ffmpeg can end in for file p: given its own input as output
\* ("Output same as Input", exit 1) or an input that is not there, it exits
\* non-zero without a word about hardware.
OutcomesOf(p, src) ==
  IF TempIsSource(p) \/ src = "deleted" THEN {"nonzero_other"} ELSE Outcomes

\* What temp_output.exists() sees and unlink() removes: the temporary file,
\* or the source when temp_output is the source.
TempState(p, d, src) ==
  IF TempIsSource(p) THEN (IF src = "present" THEN "valid" ELSE "absent") ELSE d

\* The source after temp_output was left in state d by an except clause.
SourceAfter(p, d, src) ==
  IF TempIsSource(p) /\ d = "absent" THEN "deleted" ELSE src

\* The step-down handler leaving the partial output where it is.
CleanupVram_Kept(d) == d

\* except VRAMExhaustionError: if temp_output.exists(): temp_output.unlink().
CleanupVram(d) == "absent"

\* The fatal handler leaving the partial output where it is.
CleanupFatal_Kept(d) == d

\* except Exception: if temp_output.exists(): temp_output.unlink().
CleanupFatal(d) == "absent"

\* The producer of the two-dispatcher configuration writes this path only.
ScopeTwo == {"ep"}

\* --------------------------------------------------------------- the state
NoJob == 0

InitStore ==
  /\ jobs = <<>>
  /\ backlog = <<>>
  /\ row = [w \in Workers |-> NoJob]
  /\ cursor = [w \in Workers |-> 0]
  /\ tiers = [w \in Workers |-> <<>>]
  /\ attempt = [w \in Workers |-> 0]
  /\ tried = [w \in Workers |-> <<>>]
  /\ best = [w \in Workers |-> NoProfile]
  /\ jobPath = [w \in Workers |-> "none"]
  /\ info = [w \in Workers |-> FALSE]
  /\ err = [w \in Workers |-> "none"]
  /\ disk = [f \in Files |-> "absent"]
  /\ source = [f \in Files |-> "present"]
  /\ crashes = 0
  /\ returns = <<>>
  /\ resets = <<>>
  /\ enqueued = {}
  /\ lastAdd = [path |-> "none", ret |-> FALSE]
  /\ lastSave = [sig |-> "none"]

\* Two dispatchers on a database file without stored profiles, before
\* either is launched.
Init ==
  /\ InitStore
  /\ profiles = [s \in Signatures |-> NoProfile]
  /\ pc = [w \in Workers |-> "down"]
  /\ scope = ScopeTwo

\* One add_job call as a step of the store, with the history it leaves.
AddJobStep(p) ==
  \E ts \in NextStamps(jobs) :
    LET r == add_job(jobs, p, ts)
    IN  /\ jobs' = r.jobs
        /\ returns' = IF r.ret THEN Append(returns, 0) ELSE returns
        /\ resets' = IF r.ret THEN Append(resets, 0) ELSE resets
        /\ enqueued' = enqueued \cup {p}
        /\ lastAdd' = [path |-> p, ret |-> r.ret]
        /\ lastSave' = lastSave

\* One save_successful_profile call as a step of the store, with the history
\* it leaves.
SaveStep(sig, t) ==
  /\ profiles' = save_successful_profile(profiles, sig, t)
  /\ lastSave' = [sig |-> sig,
                  tier |-> [bf |-> t.bf, lad |-> t.lad, async_depth |-> t.async_depth]]

\* No other process is inside a write transaction: BEGIN IMMEDIATE gets the
\* database's write lock at once.
WriteFree(w) == \A v \in Workers \ {w} : pc[v] # "locked"

\* The external producer appends a line to the backlog file.
AppendLine(p) ==
  /\ p \in scope
  /\ Len(backlog) < MaxBacklog
  /\ backlog' = Append(backlog, p)
  /\ UNCHANGED << jobs, profiles, pc, row, cursor, ctl, disk, source, scope, crashes, hist >>

\* queue_worker_loop entering the poll loop without the recovery pass.
Startup_NoReset(w) ==
  /\ pc[w] \in {"down", "stopped"}
  /\ WriteFree(w)
  /\ pc' = [pc EXCEPT ![w] = "ingest"]
  /\ cursor' = [cursor EXCEPT ![w] = 1]
  /\ UNCHANGED << jobs, backlog, profiles, row, ctl, disk, source, scope, crashes, hist >>

\* queue_worker_loop up to the poll loop: the configuration validates, the
\* DatabaseManager is built, db.reset_orphaned_jobs() runs.
Startup(w) ==
  /\ pc[w] \in {"down", "stopped"}
  /\ WriteFree(w)
  /\ jobs' = reset_orphaned_jobs(jobs)
  /\ returns' = [ i \in DOMAIN returns |->
                    IF jobs[i].status = "PROCESSING" THEN 0 ELSE returns[i] ]
  /\ resets' = [ i \in DOMAIN resets |->
                   IF jobs[i].status = "PROCESSING" THEN resets[i] + 1 ELSE resets[i] ]
  /\ pc' = [pc EXCEPT ![w] = "ingest"]
  /\ cursor' = [cursor EXCEPT ![w] = 1]
  /\ UNCHANGED << backlog, profiles, row, ctl, disk, source, scope, crashes, enqueued, lastAdd,
                  lastSave >>

\* db.ingest_text_queue(queue_file): add_job for the next line of the file;
\* past the last line the loop goes on to the dequeue.
IngestLine(w) ==
  /\ pc[w] = "ingest"
  /\ IF cursor[w] <= Len(backlog)
       THEN /\ WriteFree(w)
            /\ AddJobStep(backlog[cursor[w]])
            /\ cursor' = [cursor EXCEPT ![w] = @ + 1]
            /\ pc' = pc
       ELSE /\ pc' = [pc EXCEPT ![w] = "select"]
            /\ cursor' = [cursor EXCEPT ![w] = 0]
            /\ UNCHANGED << jobs, hist >>
  /\ UNCHANGED << backlog, profiles, row, ctl, disk, source, scope, crashes >>

\* The dequeue polling again by itself when it finds no row, without a
\* return to the head of the loop.
DequeueSelect_Spin(w) ==
  /\ pc[w] = "select"
  /\ IF SelectOldestPending(jobs) = {}
       THEN /\ pc' = pc
            /\ cursor' = cursor
            /\ row' = row
       ELSE \E i \in SelectOldestPending(jobs) :
              /\ row' = [row EXCEPT ![w] = i]
              /\ pc' = [pc EXCEPT ![w] = "claim"]
              /\ cursor' = cursor
  /\ UNCHANGED << jobs, backlog, profiles, ctl, disk, source, scope, crashes, hist >>

\* dequeue_pending_job, the SELECT and fetchone(); with no row the method
\* returns None and the loop polls again.
DequeueSelect(w) ==
  /\ pc[w] = "select"
  /\ IF SelectOldestPending(jobs) = {}
       THEN /\ pc' = [pc EXCEPT ![w] = "ingest"]
            /\ cursor' = [cursor EXCEPT ![w] = 1]
            /\ row' = row
       ELSE \E i \in SelectOldestPending(jobs) :
              /\ row' = [row EXCEPT ![w] = i]
              /\ pc' = [pc EXCEPT ![w] = "claim"]
              /\ cursor' = cursor
  /\ UNCHANGED << jobs, backlog, profiles, ctl, disk, source, scope, crashes, hist >>

\* dequeue_pending_job, the BEGIN IMMEDIATE the connection issues in front of
\* the UPDATE: the process waits for the write lock and takes it.
DequeueLock(w) ==
  /\ pc[w] = "claim"
  /\ WriteFree(w)
  /\ pc' = [pc EXCEPT ![w] = "locked"]
  /\ UNCHANGED << jobs, backlog, profiles, row, cursor, ctl, disk, source, scope, crashes, hist >>

\* dequeue_pending_job, the UPDATE ... WHERE id = ? and commit; returns the row.
DequeueUpdate(w) ==
  /\ pc[w] = "locked"
  /\ jobs' = update_job_status(jobs, row[w], "PROCESSING")
  /\ returns' = [returns EXCEPT ![row[w]] = @ + 1]
  /\ pc' = [pc EXCEPT ![w] = "resolve"]
  /\ UNCHANGED << backlog, profiles, row, cursor, ctl, disk, source, scope, crashes, resets,
                  enqueued, lastAdd, lastSave >>

\* The dispatcher's locals once a job is done with.
Release(w) ==
  /\ row' = [row EXCEPT ![w] = NoJob]
  /\ tiers' = [tiers EXCEPT ![w] = <<>>]
  /\ attempt' = [attempt EXCEPT ![w] = 0]
  /\ tried' = [tried EXCEPT ![w] = <<>>]
  /\ best' = [best EXCEPT ![w] = NoProfile]
  /\ jobPath' = [jobPath EXCEPT ![w] = "none"]
  /\ info' = [info EXCEPT ![w] = FALSE]
  /\ err' = [err EXCEPT ![w] = "none"]

\* `continue`: back to the head of the poll loop.
Continue(w) ==
  /\ pc' = [pc EXCEPT ![w] = "ingest"]
  /\ cursor' = [cursor EXCEPT ![w] = 1]
  /\ Release(w)

\* The store and its history after add_job for each path of eps, in order.
RECURSIVE AddAll(_, _, _)
AddAll(st, eps, ts) ==
  IF eps = <<>> THEN st
  ELSE LET p == Head(eps)
           r == add_job(st.jobs, p, ts)
       IN  AddAll([ jobs     |-> r.jobs,
                    returns  |-> IF r.ret THEN Append(st.returns, 0) ELSE st.returns,
                    resets   |-> IF r.ret THEN Append(st.resets, 0) ELSE st.resets,
                    enqueued |-> st.enqueued \cup {p},
                    lastAdd  |-> [path |-> p, ret |-> r.ret] ],
                  Tail(eps), ts)

\* The status write that ends the handling of a job, then `continue`.
Mark(w, st) ==
  /\ jobs' = update_job_status(jobs, row[w], st)
  /\ Continue(w)
  /\ UNCHANGED << hist >>

\* The dequeued path from the safeguard to the MediaItem (core.py 38-107):
\* path validation, media type, directory routing, MediaFactory.create.
Resolve(w) ==
  LET p  == jobs[row[w]].path
      mt == MediaTypeOf(p)
      file == IF is_dir(p) /\ mt = "MOVIE" THEN get_largest_movie_file(p) ELSE p
  IN
  /\ pc[w] = "resolve"
  /\ WriteFree(w)
  /\ IF ~should_process_path(p) THEN Mark(w, "REJECTED")
     ELSE IF is_dir(p) /\ mt = "TVSERIES" THEN
       \E moved \in BOOLEAN : \E ts \in NextStamps(jobs) :
         LET st == AddAll([jobs |-> jobs, returns |-> returns, resets |-> resets,
                           enqueued |-> enqueued, lastAdd |-> lastAdd],
                          Episodes(p), ts)
         IN  IF moved
               THEN /\ jobs' = update_job_status(st.jobs, row[w], "COMPLETED")
                    /\ returns' = st.returns
                    /\ resets' = st.resets
                    /\ enqueued' = st.enqueued
                    /\ lastAdd' = st.lastAdd
                    /\ lastSave' = lastSave
                    /\ Continue(w)
               ELSE \* shutil.move raises in clean_season_folder_name: not
                    \* inside the job's try, caught by the loop's handler;
                    \* no episode is queued and no status is written.
                    /\ Continue(w)
                    /\ UNCHANGED << jobs, hist >>
     ELSE IF is_dir(p) /\ mt = "MOVIE" /\ file = "none" THEN Mark(w, "FAILED")
     ELSE IF is_dir(p) /\ mt = "UNKNOWN" THEN Mark(w, "FAILED")
     ELSE IF mt = "UNKNOWN" THEN Mark(w, "REJECTED")
     ELSE IF OnDisk(file) /\ ~ProbeOk(file) THEN
       \* MediaValidationError out of MediaItem.__init__: not inside the
       \* job's try, caught by the loop's handler; no status is written.
       /\ Continue(w)
       /\ UNCHANGED << jobs, hist >>
     ELSE
       /\ pc' = [pc EXCEPT ![w] = "encode"]
       /\ jobPath' = [jobPath EXCEPT ![w] = file]
       /\ info' = [info EXCEPT ![w] = OnDisk(file) /\ HasStreamInfo(file)]
       /\ UNCHANGED << jobs, row, cursor, tiers, attempt, tried, best, err,
                       hist >>
  /\ UNCHANGED << backlog, profiles, disk, source, scope, crashes >>

\* _encode_video_with_heuristics up to the tier loop: the profile lookup
\* (which writes last_used when it finds a row) and the filter
\* (conversion_utils.py 62-91).
EncodeInit(w) ==
  LET p    == jobPath[w]
      prof == IF info[w] THEN get_best_profile(SignatureOf(p)) ELSE NoProfile
  IN
  /\ pc[w] = "encode"
  /\ prof # NoProfile => WriteFree(w)
  /\ best' = [best EXCEPT ![w] = prof]
  /\ IF prof # NoProfile /\ ~EncodingTierSubscriptable
       THEN \* TypeError at t['bf'], outside the tier loop's try
            /\ pc' = [pc EXCEPT ![w] = "failed"]
            /\ err' = [err EXCEPT ![w] = "TypeError"]
            /\ UNCHANGED << tiers, attempt >>
       ELSE /\ tiers' = [tiers EXCEPT ![w] =
                           IF prof # NoProfile THEN FilteredLadder(prof) ELSE DefaultTiers]
            /\ attempt' = [attempt EXCEPT ![w] = 1]
            /\ pc' = [pc EXCEPT ![w] = "attempt"]
            /\ err' = err
  /\ UNCHANGED << jobs, backlog, profiles, row, cursor, tried, jobPath, info, disk, source, scope,
                  crashes, hist >>

\* build_command (encoding_utils.py 97-102): without stream info it raises
\* ValueError before anything is put on the command line.
build_command(hasInfo) == IF hasInfo THEN "builder" ELSE "ValueError"

\* FFmpegCommandBuilder.build (encoding_utils.py 63-80): the command line, or
\* ValueError when no output path was set.
build(outputSet) == IF outputSet THEN "cmd" ELSE "ValueError"

\* build_command ends with set_output(str(temp_output)): a builder it returns
\* has its output set.
OutputSet == TRUE

\* The builder's error handled like a hardware limit: the next tier is tried.
OnBuilderError_StepDown(w) ==
  /\ pc' = pc
  /\ err' = err
  /\ attempt' = [attempt EXCEPT ![w] = @ + 1]

\* build_command and build are called before the tier loop's try
\* (conversion_utils.py 96-101): their ValueError leaves the controller at
\* once and reaches the dispatcher's except clause.
OnBuilderError(w) ==
  /\ pc' = [pc EXCEPT ![w] = "failed"]
  /\ err' = [err EXCEPT ![w] = "ValueError"]
  /\ attempt' = attempt

\* The retry of the tier that has just failed.
NextTier_Same(a) == a

\* `for attempt in tiers`: after a stepped-down failure the loop goes on with
\* the tier that follows.
NextTier(a) == a + 1

\* The head of one pass of the tier loop (conversion_utils.py 93-104): the
\* next tier or exhaustion, build_command, execute_process running ffmpeg
\* to its end.
Attempt(w) ==
  LET p == jobPath[w]
  IN
  /\ pc[w] = "attempt"
  /\ IF attempt[w] > Len(tiers[w]) THEN
       \* VideoEncodingError("All encoding memory tiers failed.")
       /\ pc' = [pc EXCEPT ![w] = "failed"]
       /\ err' = [err EXCEPT ![w] = "exhausted"]
       /\ UNCHANGED << attempt, tried, disk, source >>
     ELSE IF "ValueError" \in {build_command(info[w]), build(OutputSet)} THEN
       /\ OnBuilderError(w)
       /\ UNCHANGED << tried, disk, source >>
     ELSE
       \E o \in OutcomesOf(p, source[p]) :
         \E d \in (IF TempIsSource(p) THEN {disk[p]} ELSE Written(o, disk[p])) :
         LET t == tiers[w][attempt[w]]
         IN  /\ tried' = [tried EXCEPT ![w] =
                            Append(@, [bf |-> t.bf, lad |-> t.lad,
                                       async_depth |-> t.async_depth, out |-> o])]
             /\ disk' = [disk EXCEPT ![p] = d]
             /\ source' = source
             /\ pc' = [pc EXCEPT ![w] = "ran"]
             /\ err' = err
             /\ attempt' = attempt
  /\ UNCHANGED << jobs, backlog, profiles, row, cursor, tiers, best, jobPath, info,
                  scope, crashes, hist >>

\* The rest of the pass (conversion_utils.py 105-132): the result of
\* execute_process is classified, the output verified, the profile saved;
\* the except clauses remove temp_output.  On success run() relocates the
\* output and the dispatcher marks the job COMPLETED (core.py 116-119).
Classify(w) ==
  LET p == jobPath[w]
      a == tried[w][Len(tried[w])]
      t == tiers[w][attempt[w]]
  IN
  /\ pc[w] = "ran"
  /\ IF execute_process(a.out) = "None" THEN
       \* VRAMExhaustionError: unlink, cooldown, continue
       /\ LET d == CleanupVram(TempState(p, disk[p], source[p]))
          IN  /\ disk' = IF TempIsSource(p) THEN disk ELSE [disk EXCEPT ![p] = d]
              /\ source' = [source EXCEPT ![p] = SourceAfter(p, d, @)]
       /\ attempt' = [attempt EXCEPT ![w] = NextTier(@)]
       /\ pc' = [pc EXCEPT ![w] = "attempt"]
       /\ UNCHANGED << jobs, profiles, row, cursor, tiers, tried, best, jobPath, info, err,
                       lastSave >>
     ELSE IF a.out = "zero_invalid" \/ ~EncodingTierSubscriptable THEN
       \* VideoEncodingError("Output file missing or empty"), or the
       \* TypeError at attempt['desc']: unlink, re-raised as fatal
       /\ LET d == CleanupFatal(TempState(p, disk[p], source[p]))
          IN  /\ disk' = IF TempIsSource(p) THEN disk ELSE [disk EXCEPT ![p] = d]
              /\ source' = [source EXCEPT ![p] = SourceAfter(p, d, @)]
       /\ err' = [err EXCEPT ![w] = "fatal"]
       /\ pc' = [pc EXCEPT ![w] = "failed"]
       /\ UNCHANGED << jobs, profiles, row, cursor, tiers, attempt, tried, best, jobPath, info,
                       lastSave >>
     ELSE
       \* profile saved, output moved to the target directory, COMPLETED
       /\ WriteFree(w)
       /\ SaveStep(SignatureOf(p), t)
       /\ disk' = [disk EXCEPT ![p] = "moved"]
       /\ source' = [source EXCEPT ![p] = "deleted"]
       /\ jobs' = update_job_status(jobs, row[w], "COMPLETED")
       /\ Continue(w)
  /\ UNCHANGED << backlog, scope, crashes, returns, resets, enqueued, lastAdd >>

\* How the failure mail can end: sent; skipped because no SMTP host is
\* configured or refused by the server (send_failure_email returns False);
\* an exception while the subject and body are put together.
MailOutcomes == {"sent", "not_sent", "raised"}

\* The except clause putting the job back in the queue.
JobFailed_Requeue(w) ==
  /\ pc[w] = "failed"
  /\ WriteFree(w)
  /\ jobs' = update_job_status(jobs, row[w], "PENDING")
  /\ pc' = [pc EXCEPT ![w] = "notify"]
  /\ UNCHANGED << backlog, profiles, row, cursor, ctl, disk, source, scope, crashes, hist >>

\* The except clause attempting the mail first and writing FAILED after it:
\* an exception out of the mail leaves the status unwritten.
JobFailed_MailFirst(w) ==
  /\ pc[w] = "failed"
  /\ WriteFree(w)
  /\ \E m \in MailOutcomes :
       jobs' = IF m = "raised" THEN jobs ELSE update_job_status(jobs, row[w], "FAILED")
  /\ pc' = [pc EXCEPT ![w] = "notify"]
  /\ UNCHANGED << backlog, profiles, row, cursor, ctl, disk, source, scope, crashes, hist >>

\* The job's except clause, its first statement (core.py 121-123): FAILED is
\* written.
JobFailed(w) ==
  /\ pc[w] = "failed"
  /\ WriteFree(w)
  /\ jobs' = update_job_status(jobs, row[w], "FAILED")
  /\ pc' = [pc EXCEPT ![w] = "notify"]
  /\ UNCHANGED << backlog, profiles, row, cursor, ctl, disk, source, scope, crashes, hist >>

\* The except clause closing the job as COMPLETED once the mail is out.
Notify_Completed(w) ==
  /\ pc[w] = "notify"
  /\ jobs' = update_job_status(jobs, row[w], "COMPLETED")
  /\ \E m \in MailOutcomes : Continue(w)
  /\ UNCHANGED << backlog, profiles, disk, source, scope, crashes, hist >>

\* The rest of the except clause (core.py 125-157): the failure mail is
\* attempted inside its own try, whose handler logs whatever it raises;
\* logging is restored and the loop goes on.
Notify(w) ==
  /\ pc[w] = "notify"
  /\ \E m \in MailOutcomes : Continue(w)
  /\ UNCHANGED << jobs, backlog, profiles, disk, source, scope, crashes, hist >>

\* sqlite3.OperationalError("database is locked"): another process holds the
\* write lock for longer than the connection's busy timeout (10 s).  Raised
\* by the UPDATE of the dequeue or by the FAILED write of the except clause,
\* it is caught by the loop's handler only: the write is not applied and the
\* loop polls again.
Busy(w) ==
  /\ ~WriteFree(w)
  /\ pc[w] \in {"claim", "failed"}
  /\ Continue(w)
  /\ UNCHANGED << jobs, backlog, profiles, disk, source, scope, crashes, hist >>

\* SIGINT or SIGTERM (main.py signal_handler): the handler sets
\* shutdown_requested and calls sys.exit(0); SystemExit is no Exception, so
\* neither the job's except clause nor the loop's handler catches it and the
\* process exits where it is.
Shutdown(w) ==
  /\ pc[w] \notin {"down", "absent", "stopped"}
  /\ crashes < MaxCrashes
  /\ crashes' = crashes + 1
  /\ pc' = [pc EXCEPT ![w] = "stopped"]
  /\ cursor' = [cursor EXCEPT ![w] = 0]
  /\ Release(w)
  /\ UNCHANGED << jobs, backlog, profiles, disk, source, scope, hist >>

\* The process is killed; its locals are lost, the database file stays.
Crash(w) ==
  /\ pc[w] \notin {"down", "absent", "stopped"}
  /\ crashes < MaxCrashes
  /\ crashes' = crashes + 1
  /\ pc' = [pc EXCEPT ![w] = "down"]
  /\ cursor' = [cursor EXCEPT ![w] = 0]
  /\ Release(w)
  /\ UNCHANGED << jobs, backlog, profiles, disk, source, scope, hist >>

WorkerStep(w) ==
  \/ Startup(w)
  \/ IngestLine(w)
  \/ DequeueSelect(w)
  \/ DequeueLock(w)
  \/ DequeueUpdate(w)
  \/ Resolve(w)
  \/ EncodeInit(w)
  \/ Attempt(w)
  \/ Classify(w)
  \/ JobFailed(w)
  \/ Notify(w)

Next ==
  \/ \E p \in Paths : AppendLine(p)
  \/ \E w \in Workers : WorkerStep(w)
  \/ \E w \in Workers : Crash(w)
  \/ \E w \in Workers : Shutdown(w)

\* With a second dispatcher process a write can find the database locked.
NextTwo ==
  \/ Next
  \/ \E w \in Workers : Busy(w)

Spec == Init /\ [][NextTwo]_vars

\* One dispatcher, as deployed, on a database file that may hold a profile
\* from earlier runs: the second process is never launched.  The producer
\* writes the paths of sc.
InitScoped(sc) ==
  /\ InitStore
  /\ profiles \in [Signatures -> InitialProfiles]
  /\ pc = [w \in Workers |-> IF w = "w1" THEN "down" ELSE "absent"]
  /\ scope = sc

InitOne == InitScoped(Paths)

SpecOne == InitOne /\ [][Next]_vars

\* The dispatcher keeps running and a killed dispatcher is launched again;
\* fed with a file ffprobe cannot read and a file it can.
ScopeFair == {"bad", "ep"}

FairSpec == InitScoped(ScopeFair) /\ [][Next]_vars /\ WF_vars(WorkerStep("w1"))

\* The single dispatcher fed with media files only.
ScopeFile == {"ep"}

SpecFile == InitScoped(ScopeFile) /\ [][Next]_vars

\* The single dispatcher fed with paths the safeguard refuses and a file.
ScopeGate == {"seed", "out", "ep"}

SpecGate == InitScoped(ScopeGate) /\ [][Next]_vars

\* The single dispatcher fed with a season directory and its episode.
ScopeTv == {"tvdir", "ep"}

SpecTv == InitScoped(ScopeTv) /\ [][Next]_vars

\* The single dispatcher fed with a directory outside both roots, a movie
\* directory holding no video file, and a file.
ScopeDir == {"outdir", "emptydir", "ep"}

SpecDir == InitScoped(ScopeDir) /\ [][Next]_vars

\* The single dispatcher fed with a path whose file is no longer there and
\* a file.
ScopeBuild == {"gone", "ep"}

SpecBuild == InitScoped(ScopeBuild) /\ [][Next]_vars

\* The single dispatcher fed with media files only, and kept running.
FairFile == InitScoped(ScopeFile) /\ [][Next]_vars /\ WF_vars(WorkerStep("w1"))

\* The single dispatcher fed with an episode and with an episode file whose
\* name already ends in _converted.mp4, such as an output left behind.
ScopeConv == {"conv", "ep"}

SpecConv == InitScoped(ScopeConv) /\ [][Next]_vars

\* The heuristic store by itself: save_successful_profile called with any
\* signature and tier, no dispatcher running.
StoreSignatures == {"sig", "sig2"}

\* The tiers a save can be called with: the default ladder and a tier that
\* is not on it.
SaveTiers ==
  { DefaultTiers[k] : k \in DOMAIN DefaultTiers }
    \cup { [bf |-> 3, lad |-> 5, async_depth |-> 2] }

InitHeuristics ==
  /\ InitStore
  /\ profiles = [s \in StoreSignatures |-> NoProfile]
  /\ pc = [w \in Workers |-> "absent"]
  /\ scope = {}

SaveCall(sig, t) ==
  /\ IF profiles[sig] = NoProfile THEN TRUE ELSE profiles[sig].success_count < MaxSaves
  /\ SaveStep(sig, t)
  /\ UNCHANGED << jobs, backlog, pc, row, cursor, ctl, disk, source, scope, crashes,
                  returns, resets, enqueued, lastAdd >>

NextHeuristics == \E sig \in StoreSignatures : \E t \in SaveTiers : SaveCall(sig, t)

SpecHeuristics == InitHeuristics /\ [][NextHeuristics]_vars

\* ------------------------------------------------------------------ claims
\* A dispatcher holds job i: dequeue returned it and its handling is not over.
Processing(w, i) ==
  pc[w] \in {"resolve", "encode", "attempt", "ran", "failed"} /\ row[w] = i

MinId(S) == CHOOSE i \in S : \A k \in S : i <= k

PendingIds == { i \in DOMAIN jobs : jobs[i].status = "PENDING" }

\* C1: no job id is returned by more than one dequeue_pending_job call unless
\* a status write put it back to PENDING in between.
C1_DequeueReturnsOnce == \A i \in DOMAIN returns : returns[i] <= 1

\* C2: no job is being processed by two dispatchers at the same time.
C2_NoJobOnTwoDispatchers ==
  \A w1 \in Workers : \A w2 \in Workers \ {w1} :
    \A i \in DOMAIN jobs : ~(Processing(w1, i) /\ Processing(w2, i))

\* C3: after any sequence of add_job calls the jobs table holds exactly one
\* row for each path that was enqueued, and none for any other path.
C3_OneRowPerPath ==
  \A p \in Paths : Cardinality(RowsOf(jobs, p)) = IF p \in enqueued THEN 1 ELSE 0

\* C3 witness: add_job was called on a path that already had its row.
C3_Witness ==
  /\ lastAdd.path \in enqueued
  /\ lastAdd.ret = FALSE
  /\ Cardinality(RowsOf(jobs, lastAdd.path)) = 1

\* The store is as before but for a new PENDING row for p at the end.
InsertedOnly(js, js2, p) ==
  /\ Len(js2) = Len(js) + 1
  /\ js2[Len(js2)].path = p
  /\ js2[Len(js2)].status = "PENDING"
  /\ \A i \in DOMAIN js : js2[i] = js[i]

\* C4: add_job on a path already present returns false and leaves every row
\* (id, path, status) as it was; it returns true only when it created a new
\* PENDING row.  Checked on every add_job call of the ingestion.
C4_AddJobFrame ==
  [][ \A w \in Workers :
        (pc[w] = "ingest" /\ cursor'[w] = cursor[w] + 1) =>
          LET p == backlog[cursor[w]]
          IN  /\ lastAdd'.path = p
              /\ lastAdd'.ret = (RowsOf(jobs, p) = {})
              /\ ~lastAdd'.ret => jobs' = jobs
              /\ lastAdd'.ret => InsertedOnly(jobs, jobs', p) ]_vars

\* C4 witness: add_job has returned false on a path whose job is terminal.
C4_Witness ==
  /\ lastAdd.ret = FALSE
  /\ \E i \in RowsOf(jobs, lastAdd.path) : jobs[i].status \in Terminal

C6_ProcessingOnlyByClaim ==
  [][ /\ \A i \in DOMAIN jobs :
           (jobs[i].status # "PROCESSING" /\ jobs'[i].status = "PROCESSING") =>
             /\ jobs[i].status = "PENDING"
             /\ \E w \in Workers : pc[w] = "locked" /\ row[w] = i /\ pc'[w] = "resolve"
      /\ \A w \in Workers :
           (pc[w] = "select" /\ pc'[w] # "select" /\ PendingIds = {}) =>
             jobs' = jobs /\ row'[w] = NoJob ]_vars

\* C7: the recovery pass at startup, before the first poll, puts every job
\* left PROCESSING back to PENDING, counts once for it, and changes no other
\* job.
C7_Recovery ==
  [][ \A w \in Workers :
        (pc[w] = "down" /\ pc'[w] # "down") =>
          /\ pc'[w] = "ingest"
          /\ DOMAIN jobs' = DOMAIN jobs
          /\ \A i \in DOMAIN jobs :
               IF jobs[i].status = "PROCESSING"
                 THEN /\ jobs'[i] = [jobs[i] EXCEPT !.status = "PENDING"]
                      /\ resets'[i] = resets[i] + 1
                      /\ i \in { k \in DOMAIN jobs' : jobs'[k].status = "PENDING" }
                 ELSE jobs'[i] = jobs[i] /\ resets'[i] = resets[i] ]_vars

\* C7 witness: a job reset by the recovery pass has been returned by a later
\* dequeue.
C7_Witness ==
  \E w \in Workers : \E i \in DOMAIN jobs :
    resets[i] = 1 /\ Processing(w, i) /\ returns[i] = 1

\* C8: every enqueued job eventually reaches a terminal status.
C8_AtLeastOnce ==
  \A p \in Paths :
    (RowsOf(jobs, p) # {}) ~> (\E i \in RowsOf(jobs, p) : jobs[i].status \in Terminal)

\* C9: once a job's status is COMPLETED, FAILED or REJECTED no operation
\* changes it.
C9_TerminalAbsorbing ==
  [][ \A i \in DOMAIN jobs :
        jobs[i].status \in Terminal => jobs'[i].status = jobs[i].status ]_vars

LastTried(w) == tried[w][Len(tried[w])]

\* The step in which dispatcher w classifies the run that ended as o.
Classifies(w, o) ==
  /\ pc[w] = "ran"
  /\ LastTried(w).out = o
  /\ pc'[w] \notin {"ran", "down", "stopped"}

\* The step in which dispatcher w writes the status of its failed job.
WritesFailure(w) == pc[w] = "failed" /\ pc'[w] = "notify"

SameTier(a, t) == a.bf = t.bf /\ a.lad = t.lad /\ a.async_depth = t.async_depth

\* C11: with a stored profile for the job's signature, a job fails only
\* after at least one tier attempt was executed, the first being the first
\* surviving filtered tier or the injected profile tier.
C11_AttemptBeforeFailure ==
  [][ \A w \in Workers :
        (WritesFailure(w) /\ best[w] # NoProfile) =>
          /\ tried[w] # <<>>
          /\ SameTier(tried[w][1], Head(FilteredLadder(best[w]))) ]_vars

\* C12: a successful tier attempt (exit 0, valid output) leads to one
\* save_successful_profile call with that tier's (bf, lad, async_depth) for
\* the job's signature, the success counter one above what it was.
C12_SaveOnSuccess ==
  [][ \A w \in Workers :
        Classifies(w, "zero_valid") =>
          LET sig    == SignatureOf(jobPath[w])
              before == IF profiles[sig] = NoProfile THEN 0
                        ELSE profiles[sig].success_count
          IN  /\ profiles'[sig] # NoProfile
              /\ SameTier(profiles'[sig], LastTried(w))
              /\ profiles'[sig].success_count = before + 1 ]_vars

\* C13: when a tier attempt of a single-file job succeeds with a valid
\* output, the controller does not raise and the dispatcher marks the job
\* COMPLETED.
C13_CompletedOnSuccess ==
  [][ \A w \in Workers :
        Classifies(w, "zero_valid") =>
          /\ pc'[w] # "failed"
          /\ jobs'[row[w]].status = "COMPLETED" ]_vars

\* C14: when every tier of the ladder has failed with resource exhaustion the
\* controller ends with the ladder-exhausted failure, no partial output of
\* the job is on disk, and the job is marked FAILED.
C14_Exhaustion ==
  [][ \A w \in Workers :
        (pc[w] = "failed" /\ err[w] = "exhausted") =>
          /\ Len(tried[w]) = Len(tiers[w])
          /\ disk[jobPath[w]] = "absent"
          /\ WritesFailure(w) => jobs'[row[w]].status = "FAILED" ]_vars

\* C14 witness: the three default tiers all ended in resource exhaustion and
\* the ladder-exhausted failure was raised.
C14_Witness ==
  \E w \in Workers :
    /\ pc[w] = "failed" /\ err[w] = "exhausted"
    /\ Len(tried[w]) = 3
    /\ \A k \in DOMAIN tried[w] : tried[w][k].out = "nonzero_resource"

C16_FatalOnOtherExit ==
  [][ \A w \in Workers :
        Classifies(w, "nonzero_other") =>
          /\ pc'[w] = "failed" /\ err'[w] = "fatal"
          /\ attempt'[w] = attempt[w] ]_vars

Refused(p) == "seeding" \in Prefixes(p) \/ Prefixes(p) \cap {"tv", "movies"} = {}

\* Dispatcher w is past the safeguard with its job: probing, encoding or
\* failing it.
PastSafeguard(w) == pc[w] \in {"encode", "attempt", "ran", "failed"}

\* The step dispatcher w takes for the job it has just dequeued.
Resolves(w) == pc[w] = "resolve" /\ pc'[w] \notin {"resolve", "down", "stopped"}

\* C18 as claimed: no job whose path lies under the seeding subtree is ever
\* PROCESSING.
C18_NeverProcessing ==
  \A i \in DOMAIN jobs :
    "seeding" \in Prefixes(jobs[i].path) => jobs[i].status # "PROCESSING"

\* C18 as amended: a path under the seeding subtree is rejected before any
\* media probing: its job is set PROCESSING only by the dequeue that claims
\* it, and the dispatcher's next step marks it REJECTED, with no media item
\* created and no tier attempt made.
C18_RejectedBeforeProbe ==
  [][ \A w \in Workers :
        /\ (Resolves(w) /\ "seeding" \in Prefixes(jobs[row[w]].path)) =>
             /\ jobs'[row[w]].status = "REJECTED"
             /\ pc'[w] = "ingest"
             /\ jobPath'[w] = "none" /\ tried'[w] = <<>>
        /\ PastSafeguard(w) => "seeding" \notin Prefixes(jobs[row[w]].path) ]_vars

\* C18 witness: the job of a seeding path has been claimed and rejected.
C18_Witness ==
  \E i \in DOMAIN jobs :
    /\ "seeding" \in Prefixes(jobs[i].path)
    /\ jobs[i].status = "REJECTED"
    /\ returns[i] = 1

\* C19: a dequeued path under the seeding subtree (also one that matches an
\* allowed root) or outside both allowed roots is marked REJECTED with no
\* media item and no tier attempt, and a REJECTED job is never dequeued again.
C19_RefusedIsRejected ==
  [][ /\ \A w \in Workers :
           /\ (Resolves(w) /\ Refused(jobs[row[w]].path)) =>
                jobs'[row[w]].status = "REJECTED" /\ pc'[w] = "ingest"
           /\ PastSafeguard(w) => ~Refused(jobs[row[w]].path)
      /\ \A i \in DOMAIN jobs :
           jobs[i].status = "REJECTED" =>
             jobs'[i].status = "REJECTED" /\ returns'[i] = returns[i] ]_vars

\* C19 witness: a job outside both roots and a job under the seeding subtree
\* and the movies root are both REJECTED and the dispatcher is polling again.
C19_Witness ==
  /\ \E i \in DOMAIN jobs : Prefixes(jobs[i].path) = {} /\ jobs[i].status = "REJECTED"
  /\ \E i \in DOMAIN jobs :
       {"seeding", "movies"} \subseteq Prefixes(jobs[i].path) /\ jobs[i].status = "REJECTED"
  /\ \E w \in Workers : pc[w] = "select"

\* The media files a container directory holds.
Contained(p) ==
  IF p = "tvdir" THEN {"ep"} ELSE IF p = "mvdir" THEN {"mv"} ELSE {}

\* C20: a dequeued container directory (season pack or movie folder) gets one
\* job per contained media file and is marked COMPLETED, with no tier attempt
\* under the container job's id.
C20_ContainerExpanded ==
  [][ \A w \in Workers :
        /\ (Resolves(w) /\ Contained(jobs[row[w]].path) # {}) =>
             /\ \A f \in Contained(jobs[row[w]].path) : RowsOf(jobs', f) # {}
             /\ jobs'[row[w]].status = "COMPLETED"
             /\ pc'[w] = "ingest"
        /\ PastSafeguard(w) => Contained(jobs[row[w]].path) = {} ]_vars

\* C21: a shutdown signal delivered while a job is being handled does not
\* abort it: when the process exits on the signal, the job it held has a
\* terminal status and is not left PROCESSING.
C21_GracefulShutdown ==
  [][ \A w \in Workers :
        (pc[w] # "stopped" /\ pc'[w] = "stopped") =>
          \A i \in DOMAIN jobs :
            Processing(w, i) => jobs'[i].status \in Terminal ]_vars

\* C22: however the handling of a dequeued job ends (path refused, probing
\* or model construction failed, directory renaming failed, encoding failed)
\* the dispatcher is back at the head of its loop with a terminal status
\* recorded for the job.
C22_TerminalOnEveryFailure ==
  [][ \A w \in Workers :
        (pc[w] \in {"resolve", "encode", "attempt", "ran", "failed", "notify"}
           /\ pc'[w] = "ingest") =>
          jobs'[row[w]].status \in Terminal ]_vars

\* C23: the except clause writes FAILED before it attempts the failure mail,
\* and however the mail ends (sent, not sent, exception) no job changes and
\* the dispatcher goes back to polling.
C23_NotificationAfterStatus ==
  [][ \A w \in Workers :
        /\ WritesFailure(w) => jobs'[row[w]].status = "FAILED"
        /\ pc[w] = "notify" =>
             /\ jobs[row[w]].status = "FAILED"
             /\ pc'[w] # "notify" =>
                  jobs' = jobs /\ pc'[w] \in {"ingest", "down", "stopped"} ]_vars

\* C23 witness: a job failed, its notification step is over and the
\* dispatcher, never terminated, is dequeuing again.
C23_Witness ==
  \E w \in Workers : \E i \in DOMAIN jobs :
    /\ jobs[i].status = "FAILED"
    /\ returns[i] = 1
    /\ crashes = 0
    /\ pc[w] = "select"

\* C24: the store holds at most one profile per signature; a save on a
\* signature without profile leaves success counter 1; a save on a signature
\* with a profile overwrites bf, lad and async_depth and adds exactly one to
\* the counter; no other signature's profile changes; get_best_profile
\* returns the values of the most recent save.
C24_UpsertProfile ==
  [][ (profiles' # profiles \/ lastSave' # lastSave) =>
        \E s \in DOMAIN profiles :
          /\ s = lastSave'.sig
          /\ DOMAIN profiles' = DOMAIN profiles
          /\ \A o \in DOMAIN profiles \ {s} : profiles'[o] = profiles[o]
          /\ profiles'[s] # NoProfile
          /\ profiles'[s].success_count =
               IF profiles[s] = NoProfile THEN 1 ELSE profiles[s].success_count + 1
          /\ SameTier(profiles'[s], lastSave'.tier)
          /\ SameTier((get_best_profile(s))', lastSave'.tier) ]_vars

\* C24 witness: a signature saved twice, last with a tier other than its
\* first, next to a signature saved once.
C24_Witness ==
  /\ lastSave.sig \in StoreSignatures
  /\ profiles[lastSave.sig].success_count = 2
  /\ \E o \in StoreSignatures \ {lastSave.sig} :
       /\ profiles[o] # NoProfile
       /\ profiles[o].success_count = 1
       /\ ~SameTier(profiles[o], profiles[lastSave.sig])

\* C25: a job whose media item has no stream signature is encoded with the
\* default ladder: the lookup is skipped and, before the job can fail, at
\* least the first default tier has been attempted.
C25_DefaultLadderWithoutSignature ==
  [][ \A w \in Workers :
        (WritesFailure(w) /\ ~info[w]) =>
          /\ best[w] = NoProfile
          /\ tried[w] # <<>>
          /\ SameTier(tried[w][1], DefaultTiers[1]) ]_vars

\* C26: a dispatcher whose write finds the database locked keeps waiting
\* until the write is applied: it never gives the write up and goes on.
C26_LockContentionAbsorbed ==
  [][ \A w \in Workers :
        /\ pc[w] = "claim" => pc'[w] \in {"claim", "locked", "down", "stopped"}
        /\ pc[w] = "failed" => pc'[w] \in {"failed", "notify", "down", "stopped"} ]_vars

\* Line p is in the backlog file.
InBacklog(p) == \E k \in DOMAIN backlog : backlog[k] = p

\* C27: every path appended to the backlog eventually has its job, and
\* however often the path is appended or ingested it has one job only; a
\* dequeue is attempted only after an ingestion pass over the whole file.
C27_BacklogIngested ==
  /\ \A p \in ScopeFair : InBacklog(p) ~> (Cardinality(RowsOf(jobs, p)) = 1)
  /\ [](\A p \in Paths : Cardinality(RowsOf(jobs, p)) <= 1)
  /\ [][ \A w \in Workers :
           (pc[w] # "select" /\ pc'[w] = "select") =>
             pc[w] = "ingest" /\ cursor[w] > Len(backlog) ]_vars

\* C27 witness: a path appended twice has one job, already dequeued, and
\* the dispatcher is in a later ingestion pass.
C27_Witness ==
  \E w \in Workers : \E p \in Paths :
    /\ backlog = << p, p >>
    /\ Cardinality(RowsOf(jobs, p)) = 1
    /\ \A i \in RowsOf(jobs, p) : returns[i] = 1
    /\ pc[w] = "ingest" /\ cursor[w] = 3

\* C28: with no stored profile the attempts are the default tiers in order,
\* none following a successful one, and a first tier that succeeds leaves
\* the profile (7, 40, 8) with success counter 1.
C28_DefaultLadder ==
  [][ \A w \in Workers :
        (pc[w] = "ran" /\ best[w] = NoProfile) =>
          /\ \A k \in DOMAIN tried[w] :
               /\ SameTier(tried[w][k], DefaultTiers[k])
               /\ k < Len(tried[w]) => tried[w][k].out # "zero_valid"
          /\ (Classifies(w, "zero_valid") /\ Len(tried[w]) = 1
                /\ profiles[SignatureOf(jobPath[w])] = NoProfile) =>
               profiles'[SignatureOf(jobPath[w])] =
                 [bf |-> 7, lad |-> 40, async_depth |-> 8, success_count |-> 1] ]_vars

\* C29: resource exhaustion on a tier that is not the last is absorbed: the
\* partial output is removed and the next attempt is the next tier of the
\* ladder; and when the second tier succeeds after the first failed so, the
\* signature's profile becomes the second tier with the counter one higher
\* (from (7, 40, 8) counter 1 to (4, 20, 4) counter 2).
C29_StepDown ==
  [][ \A w \in Workers :
        /\ (Classifies(w, "nonzero_resource") /\ attempt[w] < Len(tiers[w])) =>
             /\ pc'[w] = "attempt"
             /\ attempt'[w] = attempt[w] + 1
             /\ disk'[jobPath[w]] = "absent"
        /\ (pc[w] = "attempt" /\ pc'[w] = "ran") =>
             SameTier(tried'[w][Len(tried'[w])], tiers[w][attempt[w]])
        /\ (Classifies(w, "zero_valid") /\ Len(tried[w]) = 2
              /\ tried[w][1].out = "nonzero_resource") =>
             LET sig == SignatureOf(jobPath[w])
             IN  /\ profiles'[sig] # NoProfile
                 /\ SameTier(profiles'[sig], tiers[w][2])
                 /\ profiles'[sig].success_count =
                      IF profiles[sig] = NoProfile THEN 1
                      ELSE profiles[sig].success_count + 1 ]_vars

\* C30: a tier attempt that exits 0 with a missing or undersized output is a
\* failure: no profile is saved, the file is deleted, no job status is
\* written by the controller, and the job is not marked COMPLETED after it.
C30_InvalidOutputIsFailure ==
  [][ \A w \in Workers :
        /\ Classifies(w, "zero_invalid") =>
             /\ profiles' = profiles /\ lastSave' = lastSave
             /\ disk'[jobPath[w]] = "absent"
             /\ jobs' = jobs
             /\ pc'[w] = "failed"
        /\ (pc[w] \in {"failed", "notify"} /\ tried[w] # <<>>
              /\ LastTried(w).out = "zero_invalid") =>
             jobs'[row[w]].status # "COMPLETED" ]_vars

\* C30 witness: the second tier of a job exited 0 with an undersized output;
\* the job is FAILED, nothing is at its temp_output and no profile is stored.
C30_Witness ==
  \E w \in Workers :
    /\ pc[w] = "notify"
    /\ Len(tried[w]) = 2
    /\ LastTried(w).out = "zero_invalid"
    /\ jobs[row[w]].status = "FAILED"
    /\ disk[jobPath[w]] = "absent"
    /\ profiles[SignatureOf(jobPath[w])] = NoProfile

\* C31: with a stored profile, once the controller is at its tier loop the
\* ladder is: the stored profile first when no default tier has bf <= known
\* bf and lad <= known lad; otherwise exactly the default tiers that have, in
\* default order, none injected.  The attempts follow that ladder.
C31_Injection ==
  \A w \in Workers :
    (best[w] # NoProfile /\ pc[w] \in {"attempt", "ran", "failed", "notify"}) =>
      LET Keep(t) == t.bf <= best[w].bf /\ t.lad <= best[w].lad
          sat     == SelectSeq(DefaultTiers, Keep)
      IN  /\ tiers[w] # <<>>
          /\ IF sat = <<>>
               THEN SameTier(tiers[w][1], best[w])
               ELSE tiers[w] = sat
          /\ \A k \in DOMAIN tried[w] : SameTier(tried[w][k], tiers[w][k])

\* A directory that is under neither root, or a movie directory in which
\* get_largest_movie_file finds no video file.
Unroutable(p) ==
  /\ is_dir(p)
  /\ \/ Prefixes(p) \cap {"tv", "movies"} = {}
     \/ MediaTypeOf(p) = "MOVIE" /\ Contained(p) = {}

\* The job of dispatcher w is closed with status st: no tier was attempted,
\* no job was added, the dispatcher is back at its loop head.
ClosedWith(w, st) ==
  /\ jobs'[row[w]].status = st
  /\ DOMAIN jobs' = DOMAIN jobs
  /\ tried[w] = <<>> /\ tried'[w] = <<>>
  /\ pc'[w] = "ingest"

\* C32 as claimed: a dequeued directory of unknown type, or a movie directory
\* with no usable media file, is marked FAILED, with no tier attempt and no
\* child job.
C32_DirectoryFailed ==
  [][ \A w \in Workers :
        (Resolves(w) /\ Unroutable(jobs[row[w]].path)) => ClosedWith(w, "FAILED")
    ]_vars

\* C32: a dequeued directory under neither root is marked REJECTED by the
\* safeguard, a movie directory with no usable media file is marked FAILED;
\* either way no tier is attempted and no child job is enqueued.
C32_DirectoryRejectedOrFailed ==
  [][ \A w \in Workers :
        (Resolves(w) /\ Unroutable(jobs[row[w]].path)) =>
          ClosedWith(w, IF Refused(jobs[row[w]].path) THEN "REJECTED" ELSE "FAILED")
    ]_vars

C32_Witness ==
  /\ \E i \in DOMAIN jobs : jobs[i].path = "outdir" /\ jobs[i].status = "REJECTED"
  /\ \E i \in DOMAIN jobs : jobs[i].path = "emptydir" /\ jobs[i].status = "FAILED"

\* A step of dispatcher w itself, not its process being killed or stopped.
StepOf(w) == backlog' = backlog /\ pc'[w] \notin {"down", "stopped"}

\* The jobs are as before but for the status of job i, now st.
OnlyStatus(i, st) ==
  /\ DOMAIN jobs' = DOMAIN jobs
  /\ jobs'[i].status = st
  /\ \A k \in DOMAIN jobs : k # i => jobs'[k] = jobs[k]

\* C33: for a single-file job, whatever exception leaves the pipeline, the
\* job's status is written exactly once, as FAILED, then the notification is
\* attempted once; the job is never COMPLETED afterwards.
C33_FailedOnceThenNotified ==
  [][ \A w \in Workers :
        \* the exception leaving the pipeline writes nothing itself
        /\ (pc[w] # "failed" /\ pc'[w] = "failed") => jobs' = jobs
        \* the except clause: the one status write
        /\ (pc[w] = "failed" /\ StepOf(w)) =>
             /\ pc'[w] = "notify"
             /\ OnlyStatus(row[w], "FAILED")
        \* the notification: one attempt, no write, back to the loop
        /\ (pc[w] = "notify" /\ StepOf(w)) =>
             /\ pc'[w] = "ingest"
             /\ jobs' = jobs
        /\ \A i \in DOMAIN jobs :
             jobs[i].status = "FAILED" => jobs'[i].status = "FAILED"
    ]_vars

\* C33 witness: the builder's ValueError left the pipeline, FAILED is written
\* and the notification is about to be attempted.
C33_Witness ==
  \E w \in Workers :
    /\ pc[w] = "notify"
    /\ err[w] = "ValueError"
    /\ jobs[row[w]].status = "FAILED"
    /\ crashes = 0

\* C34: the command builder raises when the output path is unset or the
\* stream info is missing, and the controller does not handle that as
\* resource exhaustion: the job fails at once, on its first tier, with no
\* tier run, no step-down and no profile saved.
C34_BuilderFailsFast ==
  [][ /\ build_command(FALSE) = "ValueError"
      /\ build(FALSE) = "ValueError"
      /\ \A w \in Workers :
           /\ (pc[w] = "attempt" /\ attempt[w] <= Len(tiers[w]) /\ ~info[w]
                 /\ StepOf(w)) =>
                /\ pc'[w] = "failed"
                /\ err'[w] = "ValueError"
                /\ attempt'[w] = attempt[w]
                /\ tried'[w] = <<>>
                /\ profiles' = profiles
                /\ lastSave' = lastSave
                /\ jobs' = jobs
           /\ (pc[w] \in {"failed", "notify"} /\ err[w] = "ValueError") =>
                /\ attempt[w] = 1
                /\ tried[w] = <<>>
                /\ StepOf(w) => jobs'[row[w]].status = "FAILED"
    ]_vars

\* C34 witness: a job whose file has no stream info failed in the builder on
\* the first tier of the default ladder.
C34_Witness ==
  \E w \in Workers :
    /\ pc[w] = "failed"
    /\ err[w] = "ValueError"
    /\ ~info[w]
    /\ attempt[w] = 1
    /\ tiers[w] = DefaultTiers

\* Profiles a store row can hold, on the default tiers, between and beyond
\* them.
ProfileRange ==
  [bf : 0 .. 8, lad : {0, 5, 10, 20, 40, 50}, async_depth : {2, 4, 8}]

NoRepeat(s) ==
  \A j, k \in DOMAIN s : j < k => ~SameTier(s[j], s[k])

\* Dispatcher w is inside the adaptive controller.
InController(w) == pc[w] \in {"encode", "attempt", "ran"}

\* The ladder is at most four tiers long, the attempts made are tiers of the
\* ladder in order, each at most once.
LadderBounded ==
  /\ \A prof \in ProfileRange :
       Len(FilteredLadder(prof)) \in 1 .. 4 /\ NoRepeat(FilteredLadder(prof))
  /\ \A w \in Workers :
       /\ Len(tiers[w]) <= 4
       /\ Len(tried[w]) <= Len(tiers[w])
       /\ NoRepeat(tried[w])
       /\ \A k \in DOMAIN tried[w] : SameTier(tried[w][k], tiers[w][k])

\* C35: the adaptive controller always terminates: the attempts of a job
\* are at most as many as the tiers of its ladder, which are at most four,
\* and no tier is attempted twice in one job.
C35_ControllerTerminates ==
  /\ []LadderBounded
  /\ \A w \in Workers : InController(w) ~> ~InController(w)

\* C35 witness: every tier of the ladder was attempted once, the controller
\* was left with the ladder exhausted and the job is marked FAILED.
C35_Witness ==
  \E w \in Workers :
    /\ pc[w] = "notify"
    /\ err[w] = "exhausted"
    /\ Len(tried[w]) = Len(tiers[w])
    /\ NoRepeat(tried[w])
    /\ jobs[row[w]].status = "FAILED"

\* C36: with the single dispatcher at most one job is PROCESSING at any
\* time: no job is dequeued while an earlier dequeued job is still
\* PROCESSING.
C36_OneProcessing ==
  Cardinality({ i \in DOMAIN jobs : jobs[i].status = "PROCESSING" }) <= 1

C38_SourceKeptOnFailure ==
  [][ \A f \in Files :
        (source[f] = "present" /\ source'[f] = "deleted") => disk'[f] = "moved"
    ]_vars

\* C39: a job is COMPLETED only if it is a season directory whose episode
\* files all have their jobs, or a single-file job whose validated output
\* has been moved to the target directory; a job whose every tier failed is
\* never COMPLETED.
C39_CompletedOnlyOnSuccess ==
  /\ \A i \in DOMAIN jobs :
       jobs[i].status = "COMPLETED" =>
         LET p == jobs[i].path
         IN  IF is_dir(p) /\ MediaTypeOf(p) = "TVSERIES"
               THEN \A f \in Contained(p) : RowsOf(jobs, f) # {}
               ELSE /\ get_largest_movie_file(p) \in Files
                    /\ disk[get_largest_movie_file(p)] = "moved"
  /\ \A w \in Workers :
       (pc[w] \in {"failed", "notify"} /\ row[w] # NoJob) =>
         jobs[row[w]].status # "COMPLETED"

\* C39 witness: the season directory is COMPLETED with its episode queued,
\* and the episode's own job, every tier of which failed, is FAILED.
C39_Witness ==
  /\ \E i \in DOMAIN jobs : jobs[i].path = "tvdir" /\ jobs[i].status = "COMPLETED"
  /\ \E w \in Workers :
       /\ pc[w] = "notify" /\ err[w] = "exhausted"
       /\ jobs[row[w]].path = "ep"
       /\ jobs[row[w]].status = "FAILED"

====
